---- MODULE Spec2Model ----
(***************************************************************************)
(* Model of src/js/navbar.js: the mobile menu toggle, the dropdown         *)
(* submenus, the outside-click / Escape handlers and the resize handler    *)
(* debounced through requestAnimationFrame.                                *)
(*                                                                         *)
(* The DOM the script reads and writes is the state: the aria-expanded     *)
(* attribute of .menu-toggle, the is-active class of .nav-menu, the        *)
(* menu-open class of body, and per .nav-dropdown its is-open class and    *)
(* the aria-expanded attribute of its a[aria-haspopup] link.  An attribute *)
(* is "none" when it is not set, else the string it was set to.            *)
(*                                                                         *)
(* A thrown TypeError (a method call on a null element) ends the handler   *)
(* at that statement: what it wrote before stays written, `threw' is set.  *)
(*                                                                         *)
(* One event dispatch is one or two steps: the listener on the target,     *)
(* then (phase = "bubble") the listener on document for the same event.    *)
(* No other event is dispatched in between.                                *)
(*                                                                         *)
(* The script computes isDesktop when it is evaluated and calls init()     *)
(* either at once or, while the document is still loading, from a          *)
(* DOMContentLoaded listener.  Until init() has run no listener is         *)
(* installed: events are dispatched and reach no handler.                  *)
(***************************************************************************)
EXTENDS Integers, FiniteSets, Sequences, TLC

\* Bounds of the model.
NumDropdowns == 2
MaxHandle == 3

\* navbar.js:16
DESKTOP_BREAKPOINT == 1024

Dropdowns == 1..NumDropdowns
Widths == {DESKTOP_BREAKPOINT - 1, DESKTOP_BREAKPOINT, DESKTOP_BREAKPOINT + 1}
Keys == {"Enter", " ", "Escape", "Tab"}
\* Where a click with no listener of its own can land.
Places == {"nav", "outside"}

VARIABLES
  hasToggle,        \* document.querySelector('.menu-toggle') found an element
  hasNav,           \* document.querySelector('.nav-menu') found an element
  hasDT,            \* hasDT[d]: dropdown d contains an a[aria-haspopup] link
  initDone,         \* init() has run (to its end, or to the line it threw at)
  toggleAria,       \* aria-expanded of .menu-toggle
  navActive,        \* .nav-menu has class is-active
  bodyMenuOpen,     \* body has class menu-open
  ddOpen,           \* ddOpen[d]: dropdown d has class is-open
  ddAria,           \* ddAria[d]: aria-expanded of dropdown d's link
  innerWidth,       \* window.innerWidth
  isDesktop,        \* the cached flag
  resizeTimeout,    \* the stored requestAnimationFrame handle, 0 for null
  frames,           \* handles of the animation-frame callbacks still pending
  nextHandle,       \* the handle the next requestAnimationFrame returns
  focus,            \* 0, or d when dropdown d's link has the focus
  threw,            \* the handler that ran last threw a TypeError
  defaultPrevented, \* preventDefault() was called on the event in dispatch
  phase,            \* "idle", or "bubble" while the document listener is due
  last,             \* the event handled last: [ev, target, d, key, pre],
                    \* pre the state its dispatch began in: the menu was
                    \* open, dropdown d was open, another dropdown was open
  burst,            \* resize events since the last frame that ran a
                    \* callback: 0, 1, or 2 for two and more
  bodyRuns          \* how often the last animation frame ran the callback body

vars == <<hasToggle, hasNav, hasDT, initDone, toggleAria, navActive, bodyMenuOpen,
          ddOpen, ddAria, innerWidth, isDesktop, resizeTimeout, frames,
          nextHandle, focus, threw, defaultPrevented, phase, last, burst,
          bodyRuns>>

page == <<hasToggle, hasNav, hasDT>>
raf == <<resizeTimeout, frames, nextHandle>>

----------------------------------------------------------------------------
\* The part of the state the handlers compute on, as one record.

Cur ==
  [toggleAria |-> toggleAria, navActive |-> navActive,
   bodyMenuOpen |-> bodyMenuOpen, ddOpen |-> ddOpen, ddAria |-> ddAria,
   isDesktop |-> isDesktop, focus |-> focus,
   threw |-> FALSE, prevented |-> FALSE]

\* The same while the event of the previous step is still in dispatch.
CurBubble == [Cur EXCEPT !.prevented = defaultPrevented]

Set(r) ==
  /\ toggleAria' = r.toggleAria
  /\ navActive' = r.navActive
  /\ bodyMenuOpen' = r.bodyMenuOpen
  /\ ddOpen' = r.ddOpen
  /\ ddAria' = r.ddAria
  /\ isDesktop' = r.isDesktop
  /\ focus' = r.focus
  /\ threw' = r.threw
  /\ defaultPrevented' = r.prevented

\* A method call on null.
Throw(s) == [s EXCEPT !.threw = TRUE]

\* setAttribute(name, b) with a boolean b stores String(b).
BoolStr(b) == IF b THEN "true" ELSE "false"

Pre(d) ==
  [menu |-> navActive,
   self |-> (d \in Dropdowns /\ ddOpen[d]),
   other |-> (\E e \in Dropdowns \ {d} : ddOpen[e])]

Event(ev, target, d, key) ==
  [ev |-> ev, target |-> target, d |-> d, key |-> key, pre |-> Pre(d)]

----------------------------------------------------------------------------
\* The functions of navbar.js.

updateDesktopState(s) ==
  [s EXCEPT !.isDesktop = (innerWidth >= DESKTOP_BREAKPOINT)]

closeAllDropdowns(s) ==
  [s EXCEPT !.ddOpen = [d \in Dropdowns |-> FALSE],
            !.ddAria = [d \in Dropdowns |->
                          IF hasDT[d] THEN "false" ELSE s.ddAria[d]]]

\* Mutation: the body class is not toggled.
toggleMobileMenu_noBody(s) ==
  IF ~hasToggle THEN Throw(s)
  ELSE
    LET isOpen == s.toggleAria = "true"
        s1 == [s EXCEPT !.toggleAria = BoolStr(~isOpen)]
    IN IF ~hasNav THEN Throw(s1)
       ELSE
         LET s2 == [s1 EXCEPT !.navActive = ~s1.navActive]
         IN IF isOpen THEN closeAllDropdowns(s2) ELSE s2

toggleMobileMenu(s) ==
  IF ~hasToggle THEN Throw(s)
  ELSE
    LET isOpen == s.toggleAria = "true"
        s1 == [s EXCEPT !.toggleAria = BoolStr(~isOpen)]
    IN IF ~hasNav THEN Throw(s1)
       ELSE
         LET s2 == [s1 EXCEPT !.navActive = ~s1.navActive,
                              !.bodyMenuOpen = ~s1.bodyMenuOpen]
         IN IF isOpen THEN closeAllDropdowns(s2) ELSE s2

\* Mutation: the dropdowns are left as they are.
closeMobileMenu_noDropdowns(s) ==
  IF ~hasToggle THEN Throw(s)
  ELSE
    LET s1 == [s EXCEPT !.toggleAria = "false"]
    IN IF ~hasNav THEN Throw(s1)
       ELSE [s1 EXCEPT !.navActive = FALSE, !.bodyMenuOpen = FALSE]

\* Mutation: the body class is left as it is.
closeMobileMenu_noBody(s) ==
  IF ~hasToggle THEN Throw(s)
  ELSE
    LET s1 == [s EXCEPT !.toggleAria = "false"]
    IN IF ~hasNav THEN Throw(s1)
       ELSE closeAllDropdowns([s1 EXCEPT !.navActive = FALSE])

\* Mutation: the toggle's aria-expanded is left as it is.
closeMobileMenu_keepsAria(s) ==
  IF ~hasToggle THEN Throw(s)
  ELSE IF ~hasNav THEN Throw(s)
  ELSE closeAllDropdowns([s EXCEPT !.navActive = FALSE,
                                   !.bodyMenuOpen = FALSE])

closeMobileMenu(s) ==
  IF ~hasToggle THEN Throw(s)
  ELSE
    LET s1 == [s EXCEPT !.toggleAria = "false"]
    IN IF ~hasNav THEN Throw(s1)
       ELSE closeAllDropdowns([s1 EXCEPT !.navActive = FALSE,
                                         !.bodyMenuOpen = FALSE])

\* Mutation: the other dropdowns are not closed first.
toggleDropdown_keepsOthers(s, dropdown) ==
  IF ~s.isDesktop
  THEN
    LET isOpen == s.ddOpen[dropdown]
        s1 == [s EXCEPT !.prevented = TRUE]
        s3 == [s1 EXCEPT !.ddOpen[dropdown] = ~s1.ddOpen[dropdown]]
    IN IF ~hasDT[dropdown] THEN Throw(s3)
       ELSE [s3 EXCEPT !.ddAria[dropdown] = BoolStr(~isOpen)]
  ELSE s

\* Mutation: the mode is not looked at.
toggleDropdown_ungated(s, dropdown) ==
  LET isOpen == s.ddOpen[dropdown]
      s1 == [s EXCEPT !.prevented = TRUE]
      s2 == [s1 EXCEPT
               !.ddOpen = [d \in Dropdowns |->
                             IF d # dropdown THEN FALSE ELSE s1.ddOpen[d]],
               !.ddAria = [d \in Dropdowns |->
                             IF d # dropdown /\ hasDT[d] THEN "false"
                             ELSE s1.ddAria[d]]]
      s3 == [s2 EXCEPT !.ddOpen[dropdown] = ~s2.ddOpen[dropdown]]
  IN IF ~hasDT[dropdown] THEN Throw(s3)
     ELSE [s3 EXCEPT !.ddAria[dropdown] = BoolStr(~isOpen)]

toggleDropdown(s, dropdown) ==
  IF ~s.isDesktop
  THEN
    LET isOpen == s.ddOpen[dropdown]
        s1 == [s EXCEPT !.prevented = TRUE]
        s2 == [s1 EXCEPT
                 !.ddOpen = [d \in Dropdowns |->
                               IF d # dropdown THEN FALSE ELSE s1.ddOpen[d]],
                 !.ddAria = [d \in Dropdowns |->
                               IF d # dropdown /\ hasDT[d] THEN "false"
                               ELSE s1.ddAria[d]]]
        s3 == [s2 EXCEPT !.ddOpen[dropdown] = ~s2.ddOpen[dropdown]]
    IN IF ~hasDT[dropdown] THEN Throw(s3)
       ELSE [s3 EXCEPT !.ddAria[dropdown] = BoolStr(~isOpen)]
  ELSE s

\* Mutation: the menu is closed whether or not it is active.
handleClickOutside_noOpenCheck(s, target) ==
  IF ~hasNav THEN Throw(s)
  ELSE
    LET clickedInsideMenu == target \notin {"toggle", "outside"}
    IN IF ~hasToggle THEN Throw(s)
       ELSE
         LET clickedOnToggle == target = "toggle"
         IN IF ~clickedInsideMenu /\ ~clickedOnToggle
            THEN closeMobileMenu(s)
            ELSE s

\* Mutation: a click on the toggle counts as a click outside.
handleClickOutside_ignoresToggle(s, target) ==
  IF ~hasNav THEN Throw(s)
  ELSE
    LET isMenuOpen == s.navActive
        clickedInsideMenu == target \notin {"toggle", "outside"}
    IN IF ~hasToggle THEN Throw(s)
       ELSE IF isMenuOpen /\ ~clickedInsideMenu
            THEN closeMobileMenu(s)
            ELSE s

\* target: "toggle" (in .menu-toggle), "outside", anything else is in .nav-menu.
handleClickOutside(s, target) ==
  IF ~hasNav THEN Throw(s)
  ELSE
    LET isMenuOpen == s.navActive
        clickedInsideMenu == target \notin {"toggle", "outside"}
    IN IF ~hasToggle THEN Throw(s)
       ELSE
         LET clickedOnToggle == target = "toggle"
         IN IF isMenuOpen /\ ~clickedInsideMenu /\ ~clickedOnToggle
            THEN closeMobileMenu(s)
            ELSE s

\* Mutation: the callback only refreshes the flag.
resizeCallback_noClose(s) == [s EXCEPT !.isDesktop = (innerWidth >= DESKTOP_BREAKPOINT)]

\* The callback handleResize hands to requestAnimationFrame.
resizeCallback(s) ==
  LET s1 == updateDesktopState(s)
  IN IF s1.isDesktop THEN closeMobileMenu(s1) ELSE s1

handleEscapeKey(s, key) ==
  IF key = "Escape" THEN closeMobileMenu(s) ELSE s

\* Mutation: the focus is not moved to the link on Escape.
handleDropdownKeyboard_noFocus(s, dropdown, key) ==
  LET s1 == IF key = "Enter" \/ key = " "
            THEN IF ~s.isDesktop THEN toggleDropdown(s, dropdown) ELSE s
            ELSE s
  IN IF s1.threw THEN s1
     ELSE IF key = "Escape"
     THEN LET s2 == [s1 EXCEPT !.ddOpen[dropdown] = FALSE]
          IN IF hasDT[dropdown]
             THEN [s2 EXCEPT !.ddAria[dropdown] = "false"]
             ELSE s2
     ELSE s1

\* dropdown is event.target.closest('.nav-dropdown'): the listener is on the
\* dropdown's own link, so it is never null.
handleDropdownKeyboard(s, dropdown, key) ==
  LET s1 == IF key = "Enter" \/ key = " "
            THEN IF ~s.isDesktop THEN toggleDropdown(s, dropdown) ELSE s
            ELSE s
  IN IF s1.threw THEN s1
     ELSE IF key = "Escape"
     THEN LET s2 == [s1 EXCEPT !.ddOpen[dropdown] = FALSE]
          IN IF hasDT[dropdown]
             THEN [s2 EXCEPT !.ddAria[dropdown] = "false", !.focus = dropdown]
             ELSE s2
     ELSE s1

mouseenter(s, dropdown) ==
  IF s.isDesktop
  THEN LET s1 == [s EXCEPT !.ddOpen[dropdown] = TRUE]
       IN IF hasDT[dropdown] THEN [s1 EXCEPT !.ddAria[dropdown] = "true"]
          ELSE s1
  ELSE s

\* Mutation: the link's aria-expanded is not reset.
mouseleave_keepsAria(s, dropdown) ==
  IF s.isDesktop THEN [s EXCEPT !.ddOpen[dropdown] = FALSE] ELSE s

mouseleave(s, dropdown) ==
  IF s.isDesktop
  THEN LET s1 == [s EXCEPT !.ddOpen[dropdown] = FALSE]
       IN IF hasDT[dropdown] THEN [s1 EXCEPT !.ddAria[dropdown] = "false"]
          ELSE s1
  ELSE s

\* Mutation: the mode is not looked at.
navLinkClick_ungated(s) == closeMobileMenu(s)

navLinkClick(s) ==
  IF ~s.isDesktop THEN closeMobileMenu(s) ELSE s

\* init() throws at navMenu.querySelectorAll when .nav-menu is missing: the
\* listeners added before that line stay, the ones after it are never added.
\* Before init() has run there is no listener at all.
initThrows == ~hasNav
toggleListener == initDone /\ hasToggle
dropdownListeners == initDone
navLinkListeners == initDone /\ ~initThrows
documentListeners == initDone /\ ~initThrows

----------------------------------------------------------------------------
\* The page the script is loaded on, and the state once the script has been
\* evaluated.

Markup ==
  \* the page is served with the menu and the dropdowns closed; the markup
  \* may or may not spell aria-expanded="false" out
  /\ ddOpen = [d \in Dropdowns |-> FALSE]
  /\ ddAria \in [Dropdowns -> {"none", "false"}]
  /\ \A d \in Dropdowns : ~hasDT[d] => ddAria[d] = "none"
  /\ toggleAria \in {"none", "false"}
  /\ ~hasToggle => toggleAria = "none"
  /\ navActive = FALSE
  /\ bodyMenuOpen = FALSE

Loaded ==
  /\ innerWidth \in Widths
  /\ isDesktop = (innerWidth >= DESKTOP_BREAKPOINT)
  /\ resizeTimeout = 0
  /\ frames = {}
  /\ nextHandle = 1
  /\ focus = 0
  \* document.readyState: "loading" defers init() to DOMContentLoaded,
  \* any other value has it run before the script ends
  /\ initDone \in BOOLEAN
  /\ threw = (initDone /\ initThrows)
  /\ defaultPrevented = FALSE
  /\ phase = "idle"
  /\ last = Event(IF initDone THEN "init" ELSE "script", "", 0, "")
  /\ burst = 0
  /\ bodyRuns = 0

\* A page that provides .menu-toggle, .nav-menu and, in every .nav-dropdown,
\* an a[aria-haspopup] link.
Init ==
  /\ hasToggle = TRUE
  /\ hasNav = TRUE
  /\ hasDT = [d \in Dropdowns |-> TRUE]
  /\ Markup
  /\ Loaded

\* A page on which any of them may be missing.
InitAnyPage ==
  /\ hasToggle \in BOOLEAN
  /\ hasNav \in BOOLEAN
  /\ hasDT \in [Dropdowns -> BOOLEAN]
  /\ Markup
  /\ Loaded

----------------------------------------------------------------------------
\* Events.

Idle == phase = "idle"

\* The DOMContentLoaded listener of the script: init().
DOMContentLoaded ==
  /\ Idle
  /\ ~initDone
  /\ initDone' = TRUE
  /\ threw' = initThrows
  /\ defaultPrevented' = FALSE
  /\ phase' = "idle"
  /\ last' = Event("init", "document", 0, "")
  /\ UNCHANGED <<page, toggleAria, navActive, bodyMenuOpen, ddOpen, ddAria,
                 innerWidth, isDesktop, raf, focus, burst, bodyRuns>>

ToggleClick ==
  /\ Idle
  /\ hasToggle
  /\ Set(IF toggleListener THEN toggleMobileMenu(Cur) ELSE Cur)
  /\ phase' = "bubble"
  /\ last' = Event("click", "toggle", 0, "")
  /\ UNCHANGED <<page, initDone, innerWidth, raf, burst, bodyRuns>>

DropdownToggleClick(d) ==
  /\ Idle
  /\ hasDT[d]
  /\ Set(IF dropdownListeners THEN toggleDropdown(Cur, d) ELSE Cur)
  /\ phase' = "bubble"
  /\ last' = Event("click", "ddtoggle", d, "")
  /\ UNCHANGED <<page, initDone, innerWidth, raf, burst, bodyRuns>>

NavLinkClick ==
  /\ Idle
  /\ hasNav
  /\ Set(IF navLinkListeners THEN navLinkClick(Cur) ELSE Cur)
  /\ phase' = "bubble"
  /\ last' = Event("click", "link", 0, "")
  /\ UNCHANGED <<page, initDone, innerWidth, raf, burst, bodyRuns>>

ClickElsewhere(place) ==
  /\ Idle
  /\ place = "nav" => hasNav
  /\ Set(IF documentListeners THEN handleClickOutside(Cur, place) ELSE Cur)
  /\ phase' = "idle"
  /\ last' = Event("docclick", place, 0, "")
  /\ UNCHANGED <<page, initDone, innerWidth, raf, burst, bodyRuns>>

BubbleClick ==
  /\ phase = "bubble"
  /\ last.ev = "click"
  /\ Set(IF documentListeners THEN handleClickOutside(CurBubble, last.target)
         ELSE CurBubble)
  /\ phase' = "idle"
  /\ last' = [last EXCEPT !.ev = "docclick", !.d = 0]
  /\ UNCHANGED <<page, initDone, innerWidth, raf, burst, bodyRuns>>

DropdownKeydown(d, key) ==
  /\ Idle
  /\ hasDT[d]
  /\ Set(IF dropdownListeners THEN handleDropdownKeyboard(Cur, d, key)
         ELSE Cur)
  /\ phase' = "bubble"
  /\ last' = Event("keydown", "ddtoggle", d, key)
  /\ UNCHANGED <<page, initDone, innerWidth, raf, burst, bodyRuns>>

KeydownElsewhere(key) ==
  /\ Idle
  /\ Set(IF documentListeners THEN handleEscapeKey(Cur, key) ELSE Cur)
  /\ phase' = "idle"
  /\ last' = Event("dockeydown", "outside", 0, key)
  /\ UNCHANGED <<page, initDone, innerWidth, raf, burst, bodyRuns>>

BubbleKeydown ==
  /\ phase = "bubble"
  /\ last.ev = "keydown"
  /\ Set(IF documentListeners THEN handleEscapeKey(CurBubble, last.key)
         ELSE CurBubble)
  /\ phase' = "idle"
  /\ last' = [last EXCEPT !.ev = "dockeydown", !.d = 0]
  /\ UNCHANGED <<page, initDone, innerWidth, raf, burst, bodyRuns>>

MouseEnter(d) ==
  /\ Idle
  /\ Set(IF dropdownListeners THEN mouseenter(Cur, d) ELSE Cur)
  /\ phase' = "idle"
  /\ last' = Event("mouseenter", "dropdown", d, "")
  /\ UNCHANGED <<page, initDone, innerWidth, raf, burst, bodyRuns>>

MouseLeave(d) ==
  /\ Idle
  /\ Set(IF dropdownListeners THEN mouseleave(Cur, d) ELSE Cur)
  /\ phase' = "idle"
  /\ last' = Event("mouseleave", "dropdown", d, "")
  /\ UNCHANGED <<page, initDone, innerWidth, raf, burst, bodyRuns>>

\* Mutation: the pending callback is not cancelled.
handleResize_noCancel(r) ==
  [resizeTimeout |-> r.nextHandle,
   frames |-> r.frames \cup {r.nextHandle},
   nextHandle |-> r.nextHandle + 1]

\* handleResize: cancel the stored handle if it is truthy, request a new frame.
handleResize(r) ==
  LET kept == IF r.resizeTimeout # 0 THEN r.frames \ {r.resizeTimeout}
              ELSE r.frames
  IN [resizeTimeout |-> r.nextHandle,
      frames |-> kept \cup {r.nextHandle},
      nextHandle |-> r.nextHandle + 1]

Resize(w) ==
  /\ Idle
  /\ documentListeners => nextHandle <= MaxHandle
  /\ innerWidth' = w
  /\ LET now == [resizeTimeout |-> resizeTimeout, frames |-> frames,
                 nextHandle |-> nextHandle]
         r == IF documentListeners THEN handleResize(now) ELSE now
     IN /\ resizeTimeout' = r.resizeTimeout
        /\ frames' = r.frames
        /\ nextHandle' = r.nextHandle
  /\ burst' = IF ~documentListeners THEN burst
              ELSE IF frames = {} THEN 1 ELSE 2
  /\ threw' = FALSE
  /\ defaultPrevented' = FALSE
  /\ phase' = "idle"
  /\ last' = Event("resize", "window", 0, "")
  /\ UNCHANGED <<page, initDone, toggleAria, navActive, bodyMenuOpen, ddOpen,
                 ddAria, isDesktop, focus, bodyRuns>>

\* The frame runs every callback that is pending, one after the other; a
\* callback that throws does not keep the next from running.
RECURSIVE RunCallbacks(_, _)
RunCallbacks(s, n) ==
  IF n = 0 THEN s
  ELSE LET t == resizeCallback([s EXCEPT !.threw = FALSE])
       IN RunCallbacks([t EXCEPT !.threw = s.threw \/ t.threw], n - 1)

AnimationFrame ==
  /\ Idle
  /\ frames # {}
  /\ innerWidth' = innerWidth
  /\ Set(RunCallbacks(Cur, Cardinality(frames)))
  /\ frames' = {}
  /\ bodyRuns' = Cardinality(frames)
  /\ burst' = burst
  /\ phase' = "idle"
  /\ last' = Event("frame", "window", 0, "")
  /\ UNCHANGED <<page, initDone, resizeTimeout, nextHandle>>

Next ==
  \/ DOMContentLoaded
  \/ ToggleClick
  \/ \E d \in Dropdowns : DropdownToggleClick(d)
  \/ NavLinkClick
  \/ \E place \in Places : ClickElsewhere(place)
  \/ BubbleClick
  \/ \E d \in Dropdowns, key \in Keys : DropdownKeydown(d, key)
  \/ \E key \in Keys : KeydownElsewhere(key)
  \/ BubbleKeydown
  \/ \E d \in Dropdowns : MouseEnter(d)
  \/ \E d \in Dropdowns : MouseLeave(d)
  \/ \E w \in Widths : Resize(w)
  \/ AnimationFrame

Spec == Init /\ [][Next]_vars

SpecAnyPage == InitAnyPage /\ [][Next]_vars

\* A dispatch that has begun is completed, and animation frames keep coming
\* between events.
FairSpec ==
  /\ Spec
  /\ WF_vars(BubbleClick)
  /\ WF_vars(BubbleKeydown)
  /\ SF_vars(AnimationFrame)

----------------------------------------------------------------------------
\* Properties.

dom == <<toggleAria, navActive, bodyMenuOpen, ddOpen, ddAria>>

MenuClosedNext == toggleAria' = "false" /\ ~navActive' /\ ~bodyMenuOpen'

\* No dropdown has is-open; every dropdown link has aria-expanded "false".
DropdownsClosedNext ==
  \A d \in Dropdowns : ~ddOpen'[d] /\ (hasDT[d] => ddAria'[d] = "false")

DropdownsClosed ==
  \A d \in Dropdowns : ~ddOpen[d] /\ (hasDT[d] => ddAria[d] = "false")

\* C1: a click on the menu toggle, its listener installed, while
\* aria-expanded is not "true" sets it to "true" and adds is-active to the
\* nav menu and menu-open to the body; a click while it is "true" sets it
\* to "false" and removes both classes.
C1_ToggleClick ==
  [][(ToggleClick /\ toggleListener) =>
       IF toggleAria # "true"
       THEN toggleAria' = "true" /\ navActive' /\ bodyMenuOpen'
       ELSE toggleAria' = "false" /\ ~navActive' /\ ~bodyMenuOpen']_vars

C1_Witness ==
  /\ last.ev = "click" /\ last.target = "toggle"
  /\ ~last.pre.menu
  /\ toggleAria = "true" /\ navActive /\ bodyMenuOpen

\* C2: whatever elements the page has, neither init nor any handler throws.
C2_NoHandlerThrows == ~threw

\* C3: at most one resize callback is pending at any time; a resize event
\* that reaches handleResize leaves exactly the callback it scheduled
\* pending, the one of the previous event cancelled; an animation frame
\* runs the callback body exactly once, however many resize events went
\* before it.
C3_ResizeDebounced ==
  /\ Cardinality(frames) <= 1
  /\ [][/\ Cardinality(frames') <= 1
        /\ (documentListeners /\ \E w \in Widths : Resize(w)) =>
             (frames' = {resizeTimeout'} /\ resizeTimeout' \notin frames)
        /\ AnimationFrame => (bodyRuns' = 1 /\ frames' = {})]_vars

C3_Witness ==
  last.ev = "frame" /\ burst >= 2 /\ bodyRuns = 1 /\ frames = {}

\* C4: with the dropdown's listeners installed, in desktop mode mouseenter
\* opens the dropdown and mouseleave closes it, with aria-expanded on its
\* link following; in mobile mode a click on the link flips the dropdown
\* and prevents the default action.
C4_HoverAndTap ==
  [][\A d \in Dropdowns :
       /\ (dropdownListeners /\ isDesktop /\ MouseEnter(d)) =>
            (ddOpen'[d] /\ (hasDT[d] => ddAria'[d] = "true"))
       /\ (dropdownListeners /\ isDesktop /\ MouseLeave(d)) =>
            (~ddOpen'[d] /\ (hasDT[d] => ddAria'[d] = "false"))
       /\ (dropdownListeners /\ ~isDesktop /\ DropdownToggleClick(d)) =>
            /\ ddOpen'[d] = ~ddOpen[d]
            /\ ddAria'[d] = BoolStr(~ddOpen[d])
            /\ defaultPrevented']_vars

C4_Witness ==
  /\ last.ev = "mouseleave" /\ isDesktop
  /\ last.pre.self /\ hasDT[last.d]
  /\ ~ddOpen[last.d] /\ ddAria[last.d] = "false"

\* C5: while no resize callback is pending, isDesktop is
\* window.innerWidth >= 1024.
C5_FlagTracksWidth ==
  frames = {} => (isDesktop = (innerWidth >= DESKTOP_BREAKPOINT))

\* The state a run of the resize callback leaves.
CallbackRan ==
  /\ last.ev = "frame"
  /\ frames = {}
  /\ isDesktop = (innerWidth >= DESKTOP_BREAKPOINT)
  /\ innerWidth >= DESKTOP_BREAKPOINT =>
       (toggleAria = "false" /\ ~navActive /\ ~bodyMenuOpen)

\* C6: a pending resize callback eventually runs, and leaves isDesktop
\* matching the width and, at desktop width, the menu closed.
C6_CallbackEventuallyRuns == (frames # {}) ~> CallbackRan

C6_Witness ==
  CallbackRan /\ burst >= 2 /\ last.pre.menu /\ isDesktop

\* C7: the resize callback at width >= 1024 leaves the menu closed and
\* every dropdown closed; at width < 1024 it changes only isDesktop.
C7_ResizeToDesktopCloses ==
  [][AnimationFrame =>
       IF innerWidth >= DESKTOP_BREAKPOINT
       THEN MenuClosedNext /\ DropdownsClosedNext
       ELSE UNCHANGED <<dom, focus>> /\ ~isDesktop']_vars

C7_Witness ==
  /\ last.ev = "frame" /\ innerWidth >= DESKTOP_BREAKPOINT
  /\ last.pre.menu /\ last.pre.other
  /\ toggleAria = "false" /\ ~navActive /\ ~bodyMenuOpen /\ DropdownsClosed

\* A step in which one of the handlers closes the menu.
ClosesMenu ==
  \/ toggleListener /\ ToggleClick /\ toggleAria = "true"
  \/ documentListeners /\ KeydownElsewhere("Escape")
  \/ documentListeners /\ BubbleKeydown /\ last.key = "Escape"
  \/ documentListeners /\ ClickElsewhere("outside") /\ navActive
  \/ navLinkListeners /\ NavLinkClick /\ ~isDesktop
  \/ AnimationFrame /\ innerWidth >= DESKTOP_BREAKPOINT
  \/ navActive /\ ~navActive'

\* C8: a step that closes the menu leaves every dropdown closed; a toggle
\* click that opens the menu leaves the dropdowns as they were.
C8_ClosingClosesDropdowns ==
  [][/\ ClosesMenu => DropdownsClosedNext
     /\ (ToggleClick /\ toggleAria # "true") =>
          (UNCHANGED <<ddOpen, ddAria>> /\ (toggleListener => navActive'))]_vars

C8_Witness ==
  /\ last.ev = "dockeydown" /\ last.key = "Escape" /\ last.target = "outside"
  /\ last.pre.menu /\ last.pre.other
  /\ ~navActive /\ DropdownsClosed

\* toggleDropdown runs for dropdown d: a click on its link, or Enter or
\* Space on it in mobile mode.
TogglesDropdown(d) ==
  /\ dropdownListeners
  /\ \/ DropdownToggleClick(d)
     \/ ~isDesktop /\ (DropdownKeydown(d, "Enter") \/ DropdownKeydown(d, " "))

\* C9: in mobile mode, after toggleDropdown every other dropdown is closed,
\* and the clicked one is open exactly when it was closed before.
C9_OneDropdownOpen ==
  [][\A d \in Dropdowns :
       (~isDesktop /\ TogglesDropdown(d)) =>
          /\ \A e \in Dropdowns \ {d} :
                ~ddOpen'[e] /\ (hasDT[e] => ddAria'[e] = "false")
          /\ Cardinality({e \in Dropdowns : ddOpen'[e]}) <= 1
          /\ ddOpen'[d] = ~ddOpen[d]]_vars

C9_Witness ==
  /\ last.ev = "click" /\ last.target = "ddtoggle" /\ ~isDesktop
  /\ last.pre.other /\ ~last.pre.self
  /\ {e \in Dropdowns : ddOpen[e]} = {last.d}

\* C10: in desktop mode a click, Enter or Space on a dropdown link changes
\* no class or attribute and does not prevent the default action; in mobile
\* mode mouseenter and mouseleave change no class or attribute.
C10_ModeGating ==
  [][\A d \in Dropdowns :
       /\ (isDesktop /\ (\/ DropdownToggleClick(d)
                          \/ DropdownKeydown(d, "Enter")
                          \/ DropdownKeydown(d, " "))) =>
            (UNCHANGED dom /\ ~defaultPrevented')
       /\ (~isDesktop /\ (MouseEnter(d) \/ MouseLeave(d))) =>
            UNCHANGED dom]_vars

C10_Witness ==
  /\ last.ev = "click" /\ last.target = "ddtoggle" /\ isDesktop
  /\ last.pre.other /\ ~last.pre.self
  /\ ~ddOpen[last.d] /\ ~defaultPrevented /\ phase = "bubble"

\* C11: the outside-click handler closes the menu and all dropdowns when
\* the menu has is-active and the click is neither in the nav menu nor in
\* the toggle; in every other case it changes nothing.
C11_ClickOutside ==
  [][\A target \in {"toggle", "link", "ddtoggle", "nav", "outside"} :
       (\/ target \in Places /\ ClickElsewhere(target)
        \/ BubbleClick /\ last.target = target) =>
          IF navActive /\ target = "outside"
          THEN MenuClosedNext /\ DropdownsClosedNext
          ELSE UNCHANGED <<dom, isDesktop, focus>>]_vars

C11_Witness ==
  /\ last.ev = "docclick" /\ last.target = "outside"
  /\ last.pre.menu /\ last.pre.other
  /\ toggleAria = "false" /\ ~navActive /\ ~bodyMenuOpen /\ DropdownsClosed

\* C12: once the toggle's handler and the document handler have both run
\* for one click on the toggle, the menu is open if it was closed before
\* the click and closed if it was open.  (init() writes `last', so initDone
\* here says the listeners were installed when the click was dispatched.)
C12_ToggleClickFlipsOnce ==
  (initDone /\ last.ev = "docclick" /\ last.target = "toggle") =>
    /\ navActive = ~last.pre.menu
    /\ bodyMenuOpen = ~last.pre.menu
    /\ toggleAria = BoolStr(~last.pre.menu)

C12_Witness ==
  /\ last.ev = "docclick" /\ last.target = "toggle" /\ phase = "idle"
  /\ ~last.pre.menu
  /\ toggleAria = "true" /\ navActive /\ bodyMenuOpen

\* C13: an Escape keydown leaves the menu and every dropdown closed once
\* the document handler has run, in either mode; on a dropdown link, the
\* link's own handler first closes that dropdown, sets its aria-expanded to
\* "false" and focuses the link, with the menu still as it was.
C13_Escape ==
  [][/\ (documentListeners /\ (\/ KeydownElsewhere("Escape")
                               \/ BubbleKeydown /\ last.key = "Escape")) =>
          (MenuClosedNext /\ DropdownsClosedNext)
     /\ \A d \in Dropdowns :
          (dropdownListeners /\ DropdownKeydown(d, "Escape")) =>
            /\ ~ddOpen'[d] /\ ddAria'[d] = "false" /\ focus' = d
            /\ phase' = "bubble"
            /\ UNCHANGED <<toggleAria, navActive, bodyMenuOpen>>]_vars

C13_Witness ==
  /\ last.ev = "keydown" /\ last.key = "Escape" /\ phase = "bubble"
  /\ last.pre.menu /\ last.pre.self /\ last.pre.other
  /\ ~ddOpen[last.d] /\ ddAria[last.d] = "false" /\ focus = last.d
  /\ navActive /\ toggleAria = "true"

\* C14: a click on a nav link that is not a dropdown link closes the menu
\* and all dropdowns in mobile mode and changes no menu or dropdown state in
\* desktop mode; a click on a dropdown link leaves the menu as it was.  The
\* document handler that follows either click changes nothing.
C14_NavLinkClick ==
  [][/\ (navLinkListeners /\ NavLinkClick /\ ~isDesktop) =>
          (MenuClosedNext /\ DropdownsClosedNext)
     /\ (NavLinkClick /\ isDesktop) => UNCHANGED dom
     /\ \A d \in Dropdowns :
          DropdownToggleClick(d) =>
            UNCHANGED <<toggleAria, navActive, bodyMenuOpen>>
     /\ (BubbleClick /\ last.target \in {"link", "ddtoggle"}) =>
          UNCHANGED dom]_vars

C14_Witness ==
  /\ last.ev = "docclick" /\ last.target = "link" /\ ~isDesktop
  /\ last.pre.menu /\ last.pre.other
  /\ toggleAria = "false" /\ ~navActive /\ ~bodyMenuOpen /\ DropdownsClosed

\* C15: aria-expanded of the toggle is "true" exactly when the nav menu has
\* is-active, exactly when the body has menu-open.
C15_EncodingsAgree ==
  /\ (toggleAria = "true") = navActive
  /\ navActive = bodyMenuOpen

C15_Witness ==
  /\ toggleAria = "true" /\ navActive /\ bodyMenuOpen
  /\ last.ev = "frame" /\ last.pre.menu /\ burst = 2
  /\ \E d \in Dropdowns : ddOpen[d]

TypeOK ==
  /\ toggleAria \in {"none", "false", "true"}
  /\ isDesktop \in BOOLEAN
  /\ frames \subseteq 1..MaxHandle
  /\ resizeTimeout \in 0..MaxHandle
====
